---- MODULE Spec2Model ----
(***************************************************************************)
(* Model of aws-latency-mesh/scripts: orchestrate.py (inventory grouping,  *)
(* run_measurement, run_region_measurements, main) and generate_report.py  *)
(* (generate_report).                                                      *)
(*                                                                         *)
(* Latencies are Python floats in milliseconds.  The model keeps them as   *)
(* IEEE-754 binary64 values, mantissa and exponent, and rounds every       *)
(* operation on them as the interpreter does.                              *)
(***************************************************************************)
EXTENDS Integers, Sequences, FiniteSets, TLC

----------------------------------------------------------------------------
(* Bounds of the model                                                     *)

\* largest number of instances in an inventory
MaxNodes == 4
\* largest number of work items one group hands to its executor
MaxQueue == 3
\* largest --max-workers value
MaxWorkers == 2
\* largest number of faulty instances (no addresses, or a zone id another
\* instance of the group reports too) in an inventory of a scheduled run
MaxFaulty == 1
\* largest mantissa qperf prints in front of the unit
MaxDigits == 3
\* longest result sequence handed to generate_report
MaxResults == 3
\* largest avg_ms (in microseconds) of a record handed to generate_report
MaxAvg == 3

----------------------------------------------------------------------------
(* Program constants                                                       *)

\* orchestrate.py:163  iterations = 5
Iterations == 5
\* orchestrate.py:110/112  value /= 1000, value *= 1000
UnitFactor == 1000
\* generate_report.py:130/139  all_latencies[:10], all_latencies[-10:]
TopN == 10

\* orchestrate.py:106  float(...): a binary64, 53 bits of mantissa
MantissaBits == 53

\* the value that stands for a key missing from a JSON object
Missing == "<missing>"
\* the value of a variable that holds nothing (yet)
None == [type |-> "none"]
\* generate_report has not run
NoReport == [in |-> None, state |-> "none"]

\* orchestrate.py:282 choices=['aws', 'azure'], in sorted() order
CloudOrder == <<"aws", "azure">>
\* region names of the model, in sorted() order
RegionOrder == <<"r1", "r2">>

Range(s) == {s[i] : i \in 1..Len(s)}

----------------------------------------------------------------------------
(* Python floats.  The mantissa of a float does not fit the integers of    *)
(* the model checker, so it is kept as a sequence of limbs.                *)

\* natural numbers of any size: little-endian sequences of limbs below LimbBase,
\* without leading zero limbs; << >> is 0
LimbBits == 3 * 5
LimbBase == 2 ^ LimbBits

RECURSIVE BNorm(_)
BNorm(x) ==
    IF x = << >> THEN x
    ELSE IF x[Len(x)] = 0 THEN BNorm(SubSeq(x, 1, Len(x) - 1)) ELSE x

RECURSIVE BFromInt(_)
BFromInt(n) == IF n = 0 THEN << >> ELSE <<n % LimbBase>> \o BFromInt(n \div LimbBase)

Limb(x, i) == IF i <= Len(x) THEN x[i] ELSE 0

RECURSIVE BAddFrom(_, _, _, _)
BAddFrom(x, y, i, carry) ==
    IF i > Len(x) /\ i > Len(y)
    THEN (IF carry = 0 THEN << >> ELSE <<carry>>)
    ELSE LET t == Limb(x, i) + Limb(y, i) + carry
         IN <<t % LimbBase>> \o BAddFrom(x, y, i + 1, t \div LimbBase)
BAdd(x, y) == BAddFrom(x, y, 1, 0)

\* x * k for 0 < k < 2^16
RECURSIVE BMulFrom(_, _, _, _)
BMulFrom(x, k, i, carry) ==
    IF i > Len(x) THEN BFromInt(carry)
    ELSE LET t == x[i] * k + carry
         IN <<t % LimbBase>> \o BMulFrom(x, k, i + 1, t \div LimbBase)
BMulSmall(x, k) == BMulFrom(x, k, 1, 0)

\* x divided by k, 0 < k < 2^16: [q, r], from the highest limb down
RECURSIVE BDivFrom(_, _, _, _)
BDivFrom(x, k, i, rem) ==
    IF i = 0 THEN [q |-> << >>, r |-> rem]
    ELSE LET t == rem * LimbBase + x[i]
             rest == BDivFrom(x, k, i - 1, t % k)
         IN [q |-> Append(rest.q, t \div k), r |-> rest.r]
BDivSmall(x, k) ==
    LET d == BDivFrom(x, k, Len(x), 0) IN [q |-> BNorm(d.q), r |-> d.r]

Zeros(n) == [i \in 1..n |-> 0]

\* x * 2^s
BShl(x, s) ==
    IF x = << >> THEN x
    ELSE Zeros(s \div LimbBits) \o BMulSmall(x, 2 ^ (s % LimbBits))

\* x divided by 2^s: [q, r # 0]
BShr(x, s) ==
    LET n == s \div LimbBits
        low == SubSeq(x, 1, IF n < Len(x) THEN n ELSE Len(x))
        high == SubSeq(x, n + 1, Len(x))
        d == BDivSmall(high, 2 ^ (s % LimbBits))
    IN [q |-> d.q, sticky |-> d.r # 0 \/ \E i \in 1..Len(low) : low[i] # 0]

RECURSIVE IntBitLen(_)
IntBitLen(n) == IF n = 0 THEN 0 ELSE 1 + IntBitLen(n \div 2)

BBitLen(x) == IF x = << >> THEN 0 ELSE LimbBits * (Len(x) - 1) + IntBitLen(x[Len(x)])

BIsOdd(x) == x # << >> /\ x[1] % 2 = 1

\* x < y
BLess(x, y) ==
    \/ Len(x) < Len(y)
    \/ /\ Len(x) = Len(y)
       /\ \E i \in 1..Len(x) : /\ x[i] < y[i]
                               /\ \A j \in (i + 1)..Len(x) : x[j] = y[j]

\* A positive float is [m, e]: m * 2^e, m of exactly MantissaBits bits.
\* RoundToFloat(M, e): the float nearest to M * 2^e (M > 0), ties to the even mantissa
RoundToFloat(M, e) ==
    LET len == BBitLen(M)
    IN IF len <= MantissaBits
       THEN [m |-> BShl(M, MantissaBits - len), e |-> e - (MantissaBits - len)]
       ELSE LET s == len - MantissaBits
                g == BShr(M, s - 1)          \* the mantissa and the guard bit
                q == BShr(g.q, 1).q
                up == BIsOdd(g.q) /\ (g.sticky \/ BIsOdd(q))
                m == IF up THEN BAdd(q, <<1>>) ELSE q
            IN IF BBitLen(m) > MantissaBits
               THEN [m |-> BShr(m, 1).q, e |-> e + s + 1]
               ELSE [m |-> m, e |-> e + s]

\* float(n) for a natural number n > 0
FloatOfInt(n) == RoundToFloat(BFromInt(n), 0)

\* a < b, a <= b
FloatLess(a, b) == a.e < b.e \/ (a.e = b.e /\ BLess(a.m, b.m))
FloatLeq(a, b) == a = b \/ FloatLess(a, b)

\* a + b
FloatAdd(a, b) ==
    LET hi == IF a.e >= b.e THEN a ELSE b
        lo == IF a.e >= b.e THEN b ELSE a
        d == hi.e - lo.e
    IN IF d > MantissaBits + 2 THEN hi
       ELSE RoundToFloat(BAdd(BShl(hi.m, d), lo.m), lo.e)

\* a * k for an integer 0 < k < 2^16
FloatMulInt(a, k) == RoundToFloat(BMulSmall(a.m, k), a.e)

\* a / k for an integer 0 < k < 2^16: the quotient carries two limbs more than
\* the mantissa and a last bit that tells whether the division left a remainder
FloatDivInt(a, k) ==
    LET d == BDivSmall(BShl(a.m, 2 * LimbBits), k)
        M == BAdd(BShl(d.q, 1), IF d.r # 0 THEN <<1>> ELSE << >>)
    IN RoundToFloat(M, a.e - 2 * LimbBits - 1)

\* sum(xs) of a non-empty list of floats: 0 + xs[1] + xs[2] + ..., left to right
RECURSIVE FloatSumTo(_, _)
FloatSumTo(xs, n) == IF n = 1 THEN xs[1] ELSE FloatAdd(FloatSumTo(xs, n - 1), xs[n])
FloatSum(xs) == FloatSumTo(xs, Len(xs))

\* min(xs), max(xs) of a non-empty list of floats
FloatMin(xs) == CHOOSE x \in Range(xs) : \A y \in Range(xs) : FloatLeq(x, y)
FloatMax(xs) == CHOOSE x \in Range(xs) : \A y \in Range(xs) : FloatLeq(y, x)

----------------------------------------------------------------------------
(* Inventory: a JSON object az key -> instance, in insertion order.  An    *)
(* instance is [key, cloud, region, az_id, has_ips]: key is its key in the *)
(* object, cloud is Missing when the object has no 'cloud', has_ips tells  *)
(* whether it has the 'public_ip' and 'private_ip' run_measurement reads.  *)

\* orchestrate.py:125, 350  instance.get('cloud', 'aws')
CloudOf(instance) == IF instance.cloud = Missing THEN "aws" ELSE instance.cloud

\* orchestrate.py:347-356  clouds[cloud][region][az_id] = instance
\* the instances of one (cloud, region), in insertion order
GroupInstances(inv, cloud, region) ==
    SelectSeq(inv, LAMBDA x : CloudOf(x) = cloud /\ x.region = region)

\* orchestrate.py:368  sorted(clouds.keys())
SortedClouds(inv) ==
    SelectSeq(CloudOrder, LAMBDA c : \E i \in 1..Len(inv) : CloudOf(inv[i]) = c)

\* orchestrate.py:385  sorted(clouds[cloud].items())
SortedRegions(inv, cloud) ==
    SelectSeq(RegionOrder,
              LAMBDA r : \E i \in 1..Len(inv) :
                            CloudOf(inv[i]) = cloud /\ inv[i].region = r)

\* (mutant) itertools.permutations(instance_list, 2): both orders of every pair
OrderedPairs2(list) ==
    LET idx == {p \in (1..Len(list)) \X (1..Len(list)) : p[1] # p[2]}
        RECURSIVE Lay(_)
        Lay(ps) == IF ps = {} THEN << >>
                   ELSE LET p == CHOOSE q \in ps : TRUE
                        IN <<<<list[p[1]], list[p[2]]>>>> \o Lay(ps \ {p})
    IN Lay(idx)

\* (mutant) the combinations with source and target exchanged
RECURSIVE Combinations2Reversed(_)
Combinations2Reversed(list) ==
    IF Len(list) < 2 THEN << >>
    ELSE [j \in 1..(Len(list) - 1) |-> <<list[j + 1], list[1]>>]
         \o Combinations2Reversed(Tail(list))

\* itertools.combinations(instance_list, 2): pairs <<list[i], list[j]>>, i < j,
\* in lexicographic order of (i, j)
RECURSIVE Combinations2(_)
Combinations2(list) ==
    IF Len(list) < 2 THEN << >>
    ELSE [j \in 1..(Len(list) - 1) |-> <<list[1], list[j + 1]>>]
         \o Combinations2(Tail(list))

\* C(n, 2)
PairCount(n) == (n * (n - 1)) \div 2

\* orchestrate.py:244-248  instance_list = list(instances.values());
\*                         pairs = list(combinations(instance_list, 2))
GeneratePairs(inv, cloud, region) ==
    Combinations2(GroupInstances(inv, cloud, region))

----------------------------------------------------------------------------
(* The probe: what one subprocess.run(...) call of run_measurement can do. *)
(* k = "done": the ssh command ended within its timeout and out is its     *)
(* stdout; k = "timeout": subprocess.TimeoutExpired; k = "exc": any other  *)
(* exception, str(e) = msg.                                                *)
(* A stdout text is abstracted to what the code looks at: whether it       *)
(* contains "ERROR", and what the regular expression of parse_qperf_output *)
(* finds in it: nothing ("none"), digits and dots that float() rejects     *)
(* ("bad", e.g. "1.2.3"), or a number <digits> with a unit ("num").        *)

Units == {"us", "ms", "s"}

Outputs ==
    [error : BOOLEAN, lat : {"none", "bad"}, digits : {0}, unit : {"ms"}]
    \cup [error : BOOLEAN, lat : {"num"}, digits : 1..MaxDigits, unit : Units]

NoOutput == [error |-> FALSE, lat |-> "none", digits |-> 0, unit |-> "ms"]

\* str(e) of the exceptions the model raises
SshMessage == "ssh: command failed"
FloatMessage == "could not convert string to float"

Done(out) == [k |-> "done", out |-> out, msg |-> ""]
TimeoutExpired == [k |-> "timeout", out |-> NoOutput, msg |-> ""]
Raised(msg) == [k |-> "exc", out |-> NoOutput, msg |-> msg]

\* outcomes of the server start and of the server kill (stdout is not read)
StepOutcomes == {Done(NoOutput), TimeoutExpired, Raised(SshMessage)}
\* outcomes of one client measurement
ClientOutcomes == {Done(out) : out \in Outputs} \cup {TimeoutExpired, Raised(SshMessage)}

\* orchestrate.py:104-114  parse_qperf_output, for a text the regular expression
\* matches with a number float() accepts: the value in ms
ConvertToMs(digits, unit) ==
    IF unit = "us" THEN FloatDivInt(FloatOfInt(digits), UnitFactor)     \* value /= 1000
    ELSE IF unit = "s" THEN FloatMulInt(FloatOfInt(digits), UnitFactor) \* value *= 1000
    ELSE FloatOfInt(digits)

\* orchestrate.py:95-114  parse_qperf_output: <<value>>, or << >> for None
parse_qperf_output(output) ==
    IF output.lat = "num" THEN <<ConvertToMs(output.digits, output.unit)>> ELSE << >>

\* float(latency_match.group(1)) raises ValueError
ParseRaises(output) == output.lat = "bad"

----------------------------------------------------------------------------
(* run_measurement, one step at a time.  An execution state is             *)
(*   src, dst   the two instances                                          *)
(*   pc         "attrs" | "server" | "client" | "kill" | "returned" |      *)
(*              "raised"                                                   *)
(*   iter       client iterations done                                     *)
(*   latencies  the list of line 162                                       *)
(*   steps      (history) the probe calls made so far, each with the kind  *)
(*              of its outcome                                             *)
(*   ret        the returned record, or the exception that left the call   *)

\* orchestrate.py:129-135
SkipRecord(src, dst) ==
    [type |-> "skip", cloud |-> CloudOf(src), source_az |-> src.az_id,
     target_az |-> dst.az_id, reason |-> "same_az"]

\* orchestrate.py:186-212  (mdev_ms, the addresses and the timestamp are left out)
ResultRecord(src, dst, latencies) ==
    [type |-> "result", cloud |-> CloudOf(src), region |-> src.region,
     source_az |-> src.az_id, target_az |-> dst.az_id,
     min_ms |-> FloatMin(latencies),
     avg_ms |-> FloatDivInt(FloatSum(latencies), Len(latencies)),
     max_ms |-> FloatMax(latencies), sample_count |-> Len(latencies)]

\* orchestrate.py:214-221, 224-230, 232-238
ErrorRecord(src, dst, error, output) ==
    [type |-> "error", cloud |-> CloudOf(src), source_az |-> src.az_id,
     target_az |-> dst.az_id, error |-> error, output |-> output]

NoValidOutput == "qperf returned no valid latency values"

ExecStart(src, dst) ==
    [src |-> src, dst |-> dst, pc |-> "attrs", iter |-> 0, latencies |-> << >>,
     steps |-> << >>, ret |-> None]

Return(st, record) == [st EXCEPT !.pc = "returned", !.ret = record]

\* (mutant) one except clause for every exception, which reports a timeout
CaughtAsTimeout(st, o) ==
    Return(st, ErrorRecord(st.src, st.dst, "timeout", Missing))

\* orchestrate.py:223-238  the two except clauses of run_measurement
Caught(st, o) ==
    IF o.k = "timeout"
    THEN Return(st, ErrorRecord(st.src, st.dst, "timeout", Missing))
    ELSE Return(st, ErrorRecord(st.src, st.dst, o.msg, Missing))

\* (mutant) the attribute reads without the same-AZ skip of lines 127-135
ReadAttributesNoSkip(st) ==
    IF ~st.src.has_ips \/ ~st.dst.has_ips
    THEN [st EXCEPT !.pc = "raised", !.ret = [type |-> "KeyError"]]
    ELSE [st EXCEPT !.pc = "server"]

\* orchestrate.py:119-135  the attribute reads (outside the try) and the same-AZ skip
ReadAttributes(st) ==
    IF ~st.src.has_ips \/ ~st.dst.has_ips
    THEN [st EXCEPT !.pc = "raised", !.ret = [type |-> "KeyError"]]
    ELSE IF st.src.az_id = st.dst.az_id
    THEN Return(st, SkipRecord(st.src, st.dst))
    ELSE [st EXCEPT !.pc = "server"]

\* orchestrate.py:149-159  step 1: start the qperf server on the target
StartServer(st, o) ==
    LET s == [st EXCEPT !.steps = Append(@, [step |-> "server", k |-> o.k])]
    IN IF o.k = "done" THEN [s EXCEPT !.pc = "client"] ELSE Caught(s, o)

\* (mutant) a client call that times out is taken as an iteration without a
\* sample, and the loop goes on
ClientIterationIgnoresTimeout(st, o) ==
    LET s == [st EXCEPT !.steps = Append(@, [step |-> "client", k |-> o.k]),
                            !.iter = @ + 1]
        next == IF s.iter = Iterations THEN "kill" ELSE "client"
    IN IF o.k = "exc" THEN Caught(s, o)
       ELSE IF o.k = "timeout" \/ o.out.error THEN [s EXCEPT !.pc = next]
       ELSE IF ParseRaises(o.out) THEN Caught(s, Raised(FloatMessage))
       ELSE [s EXCEPT !.pc = next,
                      !.latencies = @ \o parse_qperf_output(o.out)]

\* orchestrate.py:165-176  one iteration of the client loop
ClientIteration(st, o) ==
    LET s == [st EXCEPT !.steps = Append(@, [step |-> "client", k |-> o.k]),
                            !.iter = @ + 1]
        next == IF s.iter = Iterations THEN "kill" ELSE "client"
    IN IF o.k # "done" THEN Caught(s, o)
       ELSE IF o.out.error THEN [s EXCEPT !.pc = next]
       ELSE IF ParseRaises(o.out) THEN Caught(s, Raised(FloatMessage))
       ELSE [s EXCEPT !.pc = next,
                      !.latencies = @ \o parse_qperf_output(o.out)]

\* orchestrate.py:178-221  step 3: kill the server, then build the record
KillServer(st, o) ==
    LET s == [st EXCEPT !.steps = Append(@, [step |-> "kill", k |-> o.k])]
    IN IF o.k # "done" THEN Caught(s, o)
       ELSE IF s.latencies # << >>
       THEN Return(s, ResultRecord(s.src, s.dst, s.latencies))
       ELSE Return(s, ErrorRecord(s.src, s.dst, "no_valid_measurements", NoValidOutput))

Finished(st) == st.pc \in {"returned", "raised"}

\* one step of run_measurement; o is the outcome of the probe call of that step
ExecStep(st, o) ==
    CASE st.pc = "attrs" -> ReadAttributes(st)
      [] st.pc = "server" -> StartServer(st, o)
      [] st.pc = "client" -> ClientIteration(st, o)
      [] st.pc = "kill" -> KillServer(st, o)
      [] OTHER -> st

\* A script fixes the outcome of every probe call a pair execution may make.
ScriptStep(script, st) ==
    CASE st.pc = "server" -> script.server
      [] st.pc = "client" -> script.clients[st.iter + 1]
      [] st.pc = "kill" -> script.kill
      [] OTHER -> Done(NoOutput)

\* orchestrate.py:117-238  run_measurement from call to return (or raise)
RECURSIVE RunFrom(_, _)
RunFrom(st, script) ==
    IF Finished(st) THEN st ELSE RunFrom(ExecStep(st, ScriptStep(script, st)), script)

run_measurement(src, dst, script) == RunFrom(ExecStart(src, dst), script)

----------------------------------------------------------------------------
(* State                                                                   *)

VARIABLES
    inventory,      \* main: inventory, as a sequence of instances
    args_ssh_key,   \* main: args.ssh_key is set
    ssh_keys,       \* main: the clouds with an entry in ssh_keys
    max_workers,    \* main: args.max_workers
    pc,             \* main: where the main thread is
    ci,             \* main: index of the cloud of line 368 in sorted(clouds.keys())
    ri,             \* main: index of the region of line 385 in sorted(clouds[cloud])
    futures,        \* every future submitted so far, in submission order
    results,        \* run_region_measurements: results
    all_results,    \* main: all_results
    output_data,    \* main: output_data, once built
    ex,             \* a single run_measurement call, stepped
    gen,            \* the work list of a whole inventory, group by group
    report          \* generate_report: its input and the views it builds

vars == <<inventory, args_ssh_key, ssh_keys, max_workers, pc, ci, ri, futures,
          results, all_results, output_data, ex, gen, report>>

\* the state of a scheduled run, but for the inventory
runVars == <<args_ssh_key, ssh_keys, max_workers, pc, ci, ri, futures, results,
             all_results, output_data>>

----------------------------------------------------------------------------
(* main and run_region_measurements                                        *)

Clouds == Range(CloudOrder)
Regions == Range(RegionOrder)

CurCloud == SortedClouds(inventory)[ci]
CurRegion == SortedRegions(inventory, CurCloud)[ri]
CurGroup == <<CurCloud, CurRegion>>

\* orchestrate.py:248  pairs, for the group main is at
Pairs == GeneratePairs(inventory, CurCloud, CurRegion)

\* the futures of run_region_measurements' dict, as indexes into futures
GroupFutures(group) == {i \in 1..Len(futures) : futures[i].group = group}

Running == {i \in 1..Len(futures) : futures[i].state = "running"}

\* orchestrate.py:374-380  is there a key to connect to this cloud
HasKey(cloud) == args_ssh_key \/ cloud \in ssh_keys

\* orchestrate.py:368-383  for cloud in sorted(clouds.keys()): pick the key, or
\* report the missing key and continue with the next cloud
NextCloud ==
    /\ pc = "cloud"
    /\ ci <= Len(SortedClouds(inventory))
    /\ IF HasKey(CurCloud)
       THEN pc' = "region" /\ ri' = 1 /\ ci' = ci
       ELSE pc' = "cloud" /\ ci' = ci + 1 /\ ri' = ri
    /\ UNCHANGED <<inventory, args_ssh_key, ssh_keys, max_workers, futures, results,
                   all_results, output_data, ex, gen, report>>

\* orchestrate.py:385  the regions of the cloud are exhausted
EndCloud ==
    /\ pc = "region"
    /\ ri > Len(SortedRegions(inventory, CurCloud))
    /\ pc' = "cloud" /\ ci' = ci + 1
    /\ UNCHANGED <<inventory, args_ssh_key, ssh_keys, max_workers, ri, futures,
                   results, all_results, output_data, ex, gen, report>>

\* orchestrate.py:387, 243-252  call run_region_measurements: results = [], the
\* pairs, the executor
BeginRegion ==
    /\ pc = "region"
    /\ ri <= Len(SortedRegions(inventory, CurCloud))
    /\ results' = << >>
    /\ pc' = "submit"
    /\ UNCHANGED <<inventory, args_ssh_key, ssh_keys, max_workers, ci, ri, futures,
                   all_results, output_data, ex, gen, report>>

\* (mutant) the pairs are submitted from the last to the first
SubmitFromTheEnd ==
    /\ pc = "submit"
    /\ LET n == Cardinality(GroupFutures(CurGroup))
       IN IF n < Len(Pairs)
          THEN /\ futures' = Append(futures,
                               [group |-> CurGroup, src |-> Pairs[Len(Pairs) - n][1],
                                dst |-> Pairs[Len(Pairs) - n][2], state |-> "pending",
                                exec |-> None, yielded |-> FALSE])
               /\ pc' = pc
          ELSE /\ pc' = "collect"
               /\ futures' = futures
    /\ UNCHANGED <<inventory, args_ssh_key, ssh_keys, max_workers, ci, ri, results,
                   all_results, output_data, ex, gen, report>>

\* orchestrate.py:253-256  executor.submit(run_measurement, src, dst, ...)
\* for the next pair; the dict is complete after the last one
Submit ==
    /\ pc = "submit"
    /\ LET n == Cardinality(GroupFutures(CurGroup))
       IN IF n < Len(Pairs)
          THEN /\ futures' = Append(futures,
                               [group |-> CurGroup, src |-> Pairs[n + 1][1],
                                dst |-> Pairs[n + 1][2], state |-> "pending",
                                exec |-> None, yielded |-> FALSE])
               /\ pc' = pc
          ELSE /\ pc' = "collect"
               /\ futures' = futures
    /\ UNCHANGED <<inventory, args_ssh_key, ssh_keys, max_workers, ci, ri, results,
                   all_results, output_data, ex, gen, report>>

\* (mutant) an executor that starts a thread for every work item
CanStartUnbounded(i) ==
    /\ futures[i].state = "pending"
    /\ \A j \in 1..(i - 1) : futures[j].state # "pending"

\* ThreadPoolExecutor(max_workers): a worker thread takes the oldest queued
\* work item; there are never more than max_workers worker threads
CanStart(i) ==
    /\ futures[i].state = "pending"
    /\ \A j \in 1..(i - 1) : futures[j].state # "pending"
    /\ Cardinality(Running) < max_workers

Start(i) ==
    /\ CanStart(i)
    /\ futures' = [futures EXCEPT ![i].state = "running"]
    /\ UNCHANGED <<inventory, args_ssh_key, ssh_keys, max_workers, pc, ci, ri,
                   results, all_results, output_data, ex, gen, report>>

\* the probe behaviours a pair execution of a scheduled run meets: every step
\* succeeds and every client prints the same output, or one step fails
UniformClients(o) == [i \in 1..Iterations |-> o]
GoodOutput == [error |-> FALSE, lat |-> "num", digits |-> 1, unit |-> "ms"]
ErrorOutput == [error |-> TRUE, lat |-> "none", digits |-> 0, unit |-> "ms"]
SchedScripts ==
    { [server |-> Done(NoOutput), clients |-> UniformClients(Done(GoodOutput)),
       kill |-> Done(NoOutput)],
      [server |-> Done(NoOutput), clients |-> UniformClients(Done(ErrorOutput)),
       kill |-> Done(NoOutput)],
      [server |-> Done(NoOutput), clients |-> UniformClients(TimeoutExpired),
       kill |-> Done(NoOutput)],
      [server |-> Raised(SshMessage), clients |-> UniformClients(Done(GoodOutput)),
       kill |-> Done(NoOutput)] }

\* (mutant) the worker appends the record of its execution to results itself
FinishAppends(i) ==
    /\ futures[i].state = "running"
    /\ \E script \in SchedScripts :
          LET e == run_measurement(futures[i].src, futures[i].dst, script)
          IN /\ futures' = [futures EXCEPT ![i].state = "finished", ![i].exec = e]
             /\ results' = IF e.pc = "returned" THEN Append(results, e.ret)
                           ELSE results
    /\ UNCHANGED <<inventory, args_ssh_key, ssh_keys, max_workers, pc, ci, ri,
                   all_results, output_data, ex, gen, report>>

\* the worker runs run_measurement to its end and sets the future's result or
\* exception
Finish(i) ==
    /\ futures[i].state = "running"
    /\ \E script \in SchedScripts :
          futures' = [futures EXCEPT
                         ![i].state = "finished",
                         ![i].exec = run_measurement(futures[i].src, futures[i].dst,
                                                     script)]
    /\ UNCHANGED <<inventory, args_ssh_key, ssh_keys, max_workers, pc, ci, ri,
                   results, all_results, output_data, ex, gen, report>>

\* orchestrate.py:258-260  as_completed yields a finished future of the dict;
\* future.result() returns its record, which is appended, or raises its exception
Collect(i) ==
    /\ pc = "collect"
    /\ i \in GroupFutures(CurGroup)
    /\ futures[i].state = "finished"
    /\ ~futures[i].yielded
    /\ futures' = [futures EXCEPT ![i].yielded = TRUE]
    /\ IF futures[i].exec.pc = "raised"
       THEN pc' = "unwind" /\ results' = results
       ELSE pc' = pc /\ results' = Append(results, futures[i].exec.ret)
    /\ UNCHANGED <<inventory, args_ssh_key, ssh_keys, max_workers, ci, ri,
                   all_results, output_data, ex, gen, report>>

\* (mutant) the loop takes the futures that are finished and the executor is
\* left without waiting for the others
GroupCompleteNoWait(group) ==
    \A i \in GroupFutures(group) : futures[i].state = "finished" => futures[i].yielded

\* orchestrate.py:252-266  the for loop has seen every future of the dict and
\* the with block has left the executor (shutdown(wait=True))
GroupComplete(group) ==
    \A i \in GroupFutures(group) : futures[i].yielded /\ futures[i].state = "finished"

\* orchestrate.py:266, 392  return results; all_results.extend(results)
ReturnRegion ==
    /\ pc = "collect"
    /\ GroupComplete(CurGroup)
    /\ all_results' = all_results \o results
    /\ pc' = "region" /\ ri' = ri + 1
    /\ UNCHANGED <<inventory, args_ssh_key, ssh_keys, max_workers, ci, futures,
                   results, output_data, ex, gen, report>>

\* orchestrate.py:252, 259  future.result() raised: the with block waits for the
\* executor's work to end, then the exception leaves run_region_measurements
\* and main
Propagate ==
    /\ pc = "unwind"
    /\ \A i \in 1..Len(futures) : futures[i].state = "finished"
    /\ pc' = "crashed"
    /\ UNCHANGED <<inventory, args_ssh_key, ssh_keys, max_workers, ci, ri, futures,
                   results, all_results, output_data, ex, gen, report>>

CountType(rs, type) == Cardinality({i \in 1..Len(rs) : rs[i].type = type})

\* (mutant) total_errors counts every record that is not a measurement
BuildOutputRestAsErrors(rs) ==
    [metadata |-> [total_measurements |-> CountType(rs, "result"),
                   total_errors |-> Len(rs) - CountType(rs, "result")],
     results |-> rs]

\* orchestrate.py:395-406  output_data
BuildOutput(rs) ==
    [metadata |-> [total_measurements |-> CountType(rs, "result"),
                   total_errors |-> CountType(rs, "error")],
     results |-> rs]

\* orchestrate.py:394-410  after the last cloud: build output_data, write results.json
SaveResults ==
    /\ pc = "cloud"
    /\ ci > Len(SortedClouds(inventory))
    /\ output_data' = BuildOutput(all_results)
    /\ pc' = "written"
    /\ UNCHANGED <<inventory, args_ssh_key, ssh_keys, max_workers, ci, ri, futures,
                   results, all_results, ex, gen, report>>

----------------------------------------------------------------------------
(* A single run_measurement call, one probe call at a time.                *)

RunIdle ==
    /\ args_ssh_key = TRUE
    /\ ssh_keys = {}
    /\ max_workers = 1
    /\ pc = "idle"
    /\ ci = 1
    /\ ri = 1
    /\ futures = << >>
    /\ results = << >>
    /\ all_results = << >>
    /\ output_data = None

ExecSources ==
    [key : {1}, cloud : {"aws", Missing}, region : {"r1"}, az_id : {1},
     has_ips : BOOLEAN]
ExecTargets ==
    [key : {2}, cloud : {"aws"}, region : {"r1"}, az_id : {1, 2}, has_ips : BOOLEAN]

ExecInit ==
    /\ RunIdle
    /\ inventory = << >>
    /\ gen = None
    /\ report = NoReport
    /\ \E src \in ExecSources, dst \in ExecTargets : ex = ExecStart(src, dst)

ExecRead ==
    /\ ex.pc = "attrs"
    /\ ex' = ReadAttributes(ex)
    /\ UNCHANGED <<inventory, runVars, gen, report>>

ExecServer ==
    /\ ex.pc = "server"
    /\ \E o \in StepOutcomes : ex' = StartServer(ex, o)
    /\ UNCHANGED <<inventory, runVars, gen, report>>

ExecClient ==
    /\ ex.pc = "client"
    /\ \E o \in ClientOutcomes : ex' = ClientIteration(ex, o)
    /\ UNCHANGED <<inventory, runVars, gen, report>>

ExecKill ==
    /\ ex.pc = "kill"
    /\ \E o \in StepOutcomes : ex' = KillServer(ex, o)
    /\ UNCHANGED <<inventory, runVars, gen, report>>

ExecNext == ExecRead \/ ExecServer \/ ExecClient \/ ExecKill

ExecSpec == ExecInit /\ [][ExecNext]_vars

----------------------------------------------------------------------------
(* The work list of a whole inventory: the pairs of every group, in the    *)
(* order main visits the groups.                                           *)

\* orchestrate.py:368, 385  the (cloud, region) groups in the order of main's loops
RECURSIVE GroupsFrom(_, _)
GroupsFrom(inv, clouds) ==
    IF clouds = << >> THEN << >>
    ELSE [k \in 1..Len(SortedRegions(inv, Head(clouds))) |->
             <<Head(clouds), SortedRegions(inv, Head(clouds))[k]>>]
         \o GroupsFrom(inv, Tail(clouds))

GroupOrder(inv) == GroupsFrom(inv, SortedClouds(inv))

GenInstances(i) ==
    [key : {i}, cloud : Clouds \cup {Missing}, region : Regions, az_id : {i},
     has_ips : {TRUE}]

GenInventories ==
    UNION { { inv \in [1..n -> UNION {GenInstances(i) : i \in 1..n}] :
                \A i \in 1..n : inv[i].key = i }
            : n \in 0..MaxNodes }

GenInit ==
    /\ RunIdle
    /\ inventory \in GenInventories
    /\ gen = [gi |-> 1, work |-> << >>]
    /\ ex = None
    /\ report = NoReport

\* orchestrate.py:385-387, 244-248  the pairs of the next group
GenGroup ==
    /\ gen.gi <= Len(GroupOrder(inventory))
    /\ LET g == GroupOrder(inventory)[gen.gi]
       IN gen' = [gi |-> gen.gi + 1,
                  work |-> gen.work \o GeneratePairs(inventory, g[1], g[2])]
    /\ UNCHANGED <<inventory, runVars, ex, report>>

GenNext == GenGroup

GenSpec == GenInit /\ [][GenNext]_vars

----------------------------------------------------------------------------
(* generate_report.py: generate_report                                     *)

\* list.sort(key=...) / sorted(..., key=...): ascending by key, stable.
\* keys[i] is the key of the i-th element.  InsertByKey puts the index n behind
\* the indexes of the sorted order whose key is not larger than keys[n].
InsertByKey(order, n, keys) ==
    LET k == Cardinality({i \in 1..Len(order) : FloatLeq(keys[order[i]], keys[n])})
    IN SubSeq(order, 1, k) \o <<n>> \o SubSeq(order, k + 1, Len(order))

RECURSIVE SortedOrder(_, _)
SortedOrder(keys, n) ==
    IF n = 0 THEN << >> ELSE InsertByKey(SortedOrder(keys, n - 1), n, keys)

StableSort(seq, keys) ==
    [i \in 1..Len(seq) |-> seq[SortedOrder(keys, Len(seq))[i]]]

\* generate_report.py:46  the records with type 'result'
MeasurementsOf(rs) == SelectSeq(rs, LAMBDA r : r.type = "result")

\* generate_report.py:60  the tuple of one measurement
LatencyTuple(r) == <<CloudOf(r), r.region, r.source_az, r.target_az, r.avg_ms>>

\* (mutant) all_latencies is left in the order of the results
UnsortedLatencies(tuples) == tuples

\* generate_report.py:61  all_latencies.sort(key=lambda x: x[4])
SortLatencies(tuples) == StableSort(tuples, [i \in 1..Len(tuples) |-> tuples[i][5]])

\* The list objects generate_report works on: input is the list
\* results_data['results'], results the list of line 46, all_latencies the list
\* of line 60.  A statement changes the list object it writes to and no other.
ReportObjects(rs) == [input |-> rs, results |-> << >>, all_latencies |-> << >>]

\* (mutant) the other records are deleted from the input list, which is then
\* used as results
FilterResultsInPlace(h) ==
    [h EXCEPT !.input = MeasurementsOf(h.input), !.results = MeasurementsOf(h.input)]

\* generate_report.py:46  results = [r for r in results_data.get('results', [])
\*                                  if r.get('type') == 'result']: a new list
FilterResults(h) == [h EXCEPT !.results = MeasurementsOf(h.input)]

\* generate_report.py:60  all_latencies = [(...) for r in results]: a new list
BuildLatencies(h) ==
    [h EXCEPT !.all_latencies = [i \in 1..Len(h.results) |-> LatencyTuple(h.results[i])]]

\* generate_report.py:61  all_latencies.sort(...): in place, on all_latencies
SortAllLatencies(h) == [h EXCEPT !.all_latencies = SortLatencies(@)]

\* generate_report.py:46-61  the list objects after line 61; the later lines
\* write to lists of their own only (by_cloud, sorted(...), lines)
ObjectsAfter(rs) == SortAllLatencies(BuildLatencies(FilterResults(ReportObjects(rs))))

\* generate_report.py:58-61  all_latencies (it is built only if results is not empty)
AllLatencies(rs) == ObjectsAfter(rs).all_latencies

Reverse(seq) == [i \in 1..Len(seq) |-> seq[Len(seq) + 1 - i]]

\* generate_report.py:130  all_latencies[:10]
LowestRows(L) == SubSeq(L, 1, IF Len(L) < TopN THEN Len(L) ELSE TopN)

\* (mutant) the last ten in ascending order: all_latencies[-10:]
HighestRowsAscending(L) ==
    SubSeq(L, IF Len(L) > TopN THEN Len(L) - TopN + 1 ELSE 1, Len(L))

\* generate_report.py:139  all_latencies[-10:][::-1]
HighestRows(L) ==
    Reverse(SubSeq(L, IF Len(L) > TopN THEN Len(L) - TopN + 1 ELSE 1, Len(L)))

\* generate_report.py:94-98  by_cloud: its clouds and the regions of a cloud, in
\* sorted() order, and the records of a cloud and of a region, in input order
ByCloudKeys(ms) ==
    SelectSeq(CloudOrder, LAMBDA c : \E i \in 1..Len(ms) : CloudOf(ms[i]) = c)
ByRegionKeys(ms, cloud) ==
    SelectSeq(RegionOrder,
              LAMBDA r : \E i \in 1..Len(ms) :
                            CloudOf(ms[i]) = cloud /\ ms[i].region = r)
CloudResults(ms, cloud) == SelectSeq(ms, LAMBDA r : CloudOf(r) = cloud)
RegionResults(ms, cloud, region) ==
    SelectSeq(ms, LAMBDA r : CloudOf(r) = cloud /\ r.region = region)

\* generate_report.py:150, 163  latencies = [r['avg_ms'] for r in ...]
AvgsOf(rs) == [i \in 1..Len(rs) |-> rs[i].avg_ms]

\* generate_report.py:152, 164  sum(latencies)/len(latencies)
Mean(latencies) == FloatDivInt(FloatSum(latencies), Len(latencies))

\* generate_report.py:148-152  the rows of the per-cloud summary (the numbers the
\* rows print)
PerCloudSummary(ms) ==
    [k \in 1..Len(ByCloudKeys(ms)) |->
        LET cloud == ByCloudKeys(ms)[k]
            latencies == AvgsOf(CloudResults(ms, cloud))
        IN [cloud |-> cloud,
            regions |-> Len(ByRegionKeys(ms, cloud)),
            pairs |-> Len(latencies),
            min |-> FloatMin(latencies),
            avg |-> Mean(latencies),
            max |-> FloatMax(latencies)]]

\* generate_report.py:160-164  the rows of the per-region summary
RECURSIVE RegionRows(_, _)
RegionRows(ms, clouds) ==
    IF clouds = << >> THEN << >>
    ELSE LET cloud == Head(clouds)
             regions == ByRegionKeys(ms, cloud)
         IN [k \in 1..Len(regions) |->
                LET latencies == AvgsOf(RegionResults(ms, cloud, regions[k]))
                IN [cloud |-> cloud,
                    region |-> regions[k],
                    pairs |-> Len(latencies),
                    min |-> FloatMin(latencies),
                    avg |-> Mean(latencies),
                    max |-> FloatMax(latencies)]]
            \o RegionRows(ms, Tail(clouds))

PerRegionSummary(ms) == RegionRows(ms, ByCloudKeys(ms))

\* generate_report.py:37-165  the views generate_report builds from results_data
\* and results_data as the call leaves it
generate_report(results_data) ==
    LET h == ObjectsAfter(results_data.results)
        ms == h.results
    IN [in |-> [results_data EXCEPT !.results = h.input],
        state |-> "done",
        results |-> ms,
        all_latencies |-> h.all_latencies,
        lowest |-> LowestRows(h.all_latencies),
        highest |-> HighestRows(h.all_latencies),
        per_cloud |-> PerCloudSummary(ms),
        per_region |-> PerRegionSummary(ms)]

\* the result records generate_report is given when it is run on a results file
AggAvgs == {ConvertToMs(d, "us") : d \in 1..MaxAvg}
AggRecords ==
    [type : {"result"}, cloud : {"aws"}, region : {"r1"},
     source_az : {1}, target_az : {2, 3}, avg_ms : AggAvgs]
    \cup [type : {"result"}, cloud : {Missing}, region : {"r1"},
          source_az : {1}, target_az : {2}, avg_ms : AggAvgs]
    \cup [type : {"result"}, cloud : {"azure"}, region : {"r1", "r2"},
          source_az : {1}, target_az : {2}, avg_ms : AggAvgs]
    \cup {[type |-> "skip", cloud |-> "aws", source_az |-> 1, target_az |-> 1,
           reason |-> "same_az"],
          [type |-> "error", cloud |-> "aws", source_az |-> 1, target_az |-> 2,
           error |-> "timeout", output |-> Missing]}

AggInputs == UNION {[1..n -> AggRecords] : n \in 0..MaxResults}

\* results files with more measurements than the top lists hold: the k-th record
\* is the measurement of zone k against zone 0, faster or slower
AggLongInputs ==
    { [k \in 1..(TopN + 1) |->
          [type |-> "result", cloud |-> "aws", region |-> "r1", source_az |-> k,
           target_az |-> 0, avg_ms |-> ConvertToMs(IF k \in slow THEN 2 ELSE 1, "us")]]
      : slow \in SUBSET (1..(TopN + 1)) }

AggInit ==
    /\ RunIdle
    /\ inventory = << >>
    /\ ex = None
    /\ gen = None
    /\ \E rs \in AggInputs \cup AggLongInputs :
          report = [in |-> BuildOutput(rs), state |-> "none"]

AggReport ==
    /\ report.state = "none"
    /\ report' = generate_report(report.in)
    /\ UNCHANGED <<inventory, runVars, ex, gen>>

AggNext == AggReport

AggSpec == AggInit /\ [][AggNext]_vars

----------------------------------------------------------------------------
(* A scheduled run: main from the first cloud to the report.  The         *)
(* inventories of a scheduled run: every instance is in one of            *)
(* RunGroups, the instances of a group follow each other (GenSpec has the  *)
(* inventories in every order); the k-th instance of a group reports zone  *)
(* k, except that a "dupaz" instance reports zone 1 again and a "noip"     *)
(* instance has no addresses.  ssh_keys has entries only for clouds of the *)
(* inventory (orchestrate.py:317-327).                                     *)

RunGroupOrder == <<(<<"aws", "r1">>), (<<"aws", "r2">>), (<<"azure", "r1">>)>>
RunGroups == Range(RunGroupOrder)
GroupRank(g) == CHOOSE r \in 1..Len(RunGroupOrder) : RunGroupOrder[r] = g
\* the inventory lists its instances group by group
Grouped(k) ==
    \A i \in 1..(Len(k) - 1) : GroupRank(k[i].group) <= GroupRank(k[i + 1].group)
NodeKinds == [group : RunGroups, fault : {"ok", "noip", "dupaz"}]

MakeInventory(kinds) ==
    [i \in 1..Len(kinds) |->
        [key |-> i,
         cloud |-> kinds[i].group[1],
         region |-> kinds[i].group[2],
         az_id |-> IF kinds[i].fault = "dupaz" THEN 1
                   ELSE Cardinality({j \in 1..i : kinds[j].group = kinds[i].group}),
         has_ips |-> kinds[i].fault # "noip"]]


RunInventories ==
    UNION { { MakeInventory(kinds) :
                kinds \in { k \in [1..n -> NodeKinds] :
                              /\ Grouped(k)
                              /\ Cardinality({i \in 1..n : k[i].fault # "ok"}) <= MaxFaulty
                              /\ \A g \in RunGroups :
                                    PairCount(Cardinality({i \in 1..n : k[i].group = g}))
                                       <= MaxQueue } }
            : n \in 1..MaxNodes }


\* orchestrate.py:412-415  main hands output_data to generate_report
\* (output_data is the object the call is given)
MainReport ==
    /\ pc = "written"
    /\ report' = generate_report(output_data)
    /\ output_data' = report'.in
    /\ pc' = "done"
    /\ UNCHANGED <<inventory, args_ssh_key, ssh_keys, max_workers, ci, ri, futures,
                   results, all_results, ex, gen>>

Init ==
    /\ inventory \in RunInventories
    /\ args_ssh_key \in BOOLEAN
    /\ ssh_keys \in SUBSET Clouds
    /\ args_ssh_key => ssh_keys = {}
    /\ ssh_keys \subseteq Range(SortedClouds(inventory))
    /\ max_workers \in 1..MaxWorkers
    /\ pc = "cloud"
    /\ ci = 1
    /\ ri = 1
    /\ futures = << >>
    /\ results = << >>
    /\ all_results = << >>
    /\ output_data = None
    /\ ex = None
    /\ gen = None
    /\ report = NoReport

Next ==
    \/ NextCloud
    \/ EndCloud
    \/ BeginRegion
    \/ Submit
    \/ \E i \in 1..Len(futures) : Start(i)
    \/ \E i \in 1..Len(futures) : Finish(i)
    \/ \E i \in 1..Len(futures) : Collect(i)
    \/ ReturnRegion
    \/ Propagate
    \/ SaveResults
    \/ MainReport

Spec == Init /\ [][Next]_vars

----------------------------------------------------------------------------
(* A scheduled run with its scheduling: the main thread goes on whenever   *)
(* it can, up to the written result set; an idle worker thread takes the   *)
(* oldest queued work item; every pair execution but that of the first    *)
(* work item of the run comes to its end.  The first one may take as long  *)
(* as it likes.  The runs are those over a single group.                   *)

\* the work items of a run, by their place in futures
WorkItems == 1..MaxQueue

MainStep ==
    \/ NextCloud
    \/ EndCloud
    \/ BeginRegion
    \/ Submit
    \/ \E i \in 1..Len(futures) : Collect(i)
    \/ ReturnRegion
    \/ Propagate
    \/ SaveResults

\* the pair execution of the work item i is not in flight
NotInFlight(i) == i > Len(futures) \/ futures[i].state # "running"

\* runs with a key, two or more workers and one group
SlowInit ==
    /\ Init
    /\ args_ssh_key
    /\ max_workers >= 2
    /\ Len(GroupOrder(inventory)) = 1

SlowSpec ==
    /\ SlowInit
    /\ [][Next]_vars
    /\ WF_vars(MainStep)
    /\ \A i \in WorkItems : WF_vars(i <= Len(futures) /\ Start(i))
    \* weak fairness of Finish(i), which is enabled exactly while i is in flight
    /\ \A i \in WorkItems \ {1} : []<>NotInFlight(i)

----------------------------------------------------------------------------
(* Properties of the scheduled run                                         *)

\* the indexes of the records of rs that carry the zone ids of the pair
Matching(rs, pair) ==
    {k \in 1..Len(rs) : /\ rs[k].source_az = pair[1].az_id
                        /\ rs[k].target_az = pair[2].az_id}

\* run_region_measurements has ended for a group: it returned to main, which
\* is at the next region, or its exception took main down
RegionEnded == (pc = "region" /\ ri > 1) \/ pc = "crashed"
EndedGroup ==
    IF pc = "crashed" THEN CurGroup
    ELSE <<CurCloud, SortedRegions(inventory, CurCloud)[ri - 1]>>
\* what the caller got from it
ReturnedResults == IF pc = "crashed" THEN << >> ELSE results

\* C1: when run_region_measurements has ended for a group, the result sequence
\* it handed back holds, for every pair of the group, exactly one record whose
\* (source_az, target_az) is that of the pair.
C1_ExactlyOneRecordPerPair ==
    RegionEnded =>
        LET pairs == GeneratePairs(inventory, EndedGroup[1], EndedGroup[2])
        IN \A k \in 1..Len(pairs) :
              Cardinality(Matching(ReturnedResults, pairs[k])) = 1

\* C2: in every group, the pair executions that have started and not yet
\* returned are never more than max_workers.
C2_AtMostMaxWorkersInFlight ==
    \A g \in {futures[i].group : i \in 1..Len(futures)} :
        Cardinality({i \in GroupFutures(g) : futures[i].state = "running"}) <= max_workers

\* C2 witness: the pool of two workers is full and a further pair of the group waits
C2_PoolFullAndPairWaiting ==
    /\ max_workers = 2
    /\ Cardinality(Running) = 2
    /\ \E i \in 1..Len(futures) : futures[i].state = "pending"

\* C3: a pair execution of a group has started only if every pair execution
\* of the groups processed before it has returned.
C3_GroupsOneAfterAnother ==
    \A i, j \in 1..Len(futures) :
        (/\ i < j
         /\ futures[i].group # futures[j].group
         /\ futures[j].state # "pending") => futures[i].state = "finished"

\* C3 witness: a pair execution of a second group is in flight
C3_SecondGroupInFlight ==
    \E i, j \in 1..Len(futures) :
        /\ i < j
        /\ futures[i].group # futures[j].group
        /\ futures[j].state = "running"

\* C4: whatever the pairs' outcomes, the run does not come to rest before the
\* result set is written.
\* (An execution that is running can always end: Finish.)
C4_RunReachesWrite == pc \in {"written", "done"} \/ Running # {} \/ ENABLED Next

\* a failure other than a timeout met the execution of the future
FailedOtherThanTimeout(f) ==
    \/ ~f.src.has_ips
    \/ ~f.dst.has_ips
    \/ /\ f.exec.steps # << >>
       /\ f.exec.steps[Len(f.exec.steps)].k = "exc"

\* C5: a failure other than a timeout in a pair execution ends it with an error
\* record for the pair, whose cause is neither timeout nor the lack of valid
\* samples; no exception leaves the execution or the scheduler.
C5_FailuresBecomeRecords ==
    /\ pc \notin {"unwind", "crashed"}
    /\ \A i \in 1..Len(futures) :
          futures[i].state = "finished" =>
             /\ futures[i].exec.pc = "returned"
             /\ FailedOtherThanTimeout(futures[i]) =>
                   /\ futures[i].exec.ret.type = "error"
                   /\ futures[i].exec.ret.source_az = futures[i].src.az_id
                   /\ futures[i].exec.ret.target_az = futures[i].dst.az_id
                   /\ futures[i].exec.ret.error \notin {"timeout", "no_valid_measurements"}

SameZone(f) == f.src.az_id = f.dst.az_id

Written == pc \in {"written", "done"}

\* C9 (as claimed): the totals the run reports sum to the length of the result
\* sequence.
C9_TotalsCoverEveryRecord ==
    Written =>
        output_data.metadata.total_measurements + output_data.metadata.total_errors
           = Len(output_data.results)

\* C9 (amended): the run reports the number of measurements and the number of
\* errors; the two sum to the length of the result sequence less its skip
\* records, which no total counts.
C9_TotalsCoverAllButSkips ==
    Written =>
        LET rs == output_data.results
            skips == {k \in 1..Len(rs) : rs[k].type = "skip"}
        IN /\ output_data.metadata.total_measurements + output_data.metadata.total_errors
                 = Len(rs) - Cardinality(skips)
           /\ output_data.metadata.total_measurements
                 = Cardinality({k \in 1..Len(rs) : rs[k].type = "result"})

\* C9 witness: a written result set with a measurement, an error and a skip
C9_MixedResultSetWritten ==
    /\ Written
    /\ \A t \in {"result", "error", "skip"} :
          \E k \in 1..Len(output_data.results) : output_data.results[k].type = t

----------------------------------------------------------------------------
(* Properties of a single run_measurement call                             *)

\* C6: a probe call that times out is the last probe call of the execution,
\* which has returned the error record with error 'timeout' for its pair,
\* whatever samples it had.
C6_TimeoutEndsExecution ==
    \A n \in 1..Len(ex.steps) :
        ex.steps[n].k = "timeout" =>
           /\ n = Len(ex.steps)
           /\ ex.pc = "returned"
           /\ ex.ret = ErrorRecord(ex.src, ex.dst, "timeout", Missing)

\* C6 witness: the kill, or a later client call, timed out after valid samples
C6_TimeoutAfterSamples ==
    /\ ex.pc = "returned"
    /\ ex.latencies # << >>
    /\ ex.steps[Len(ex.steps)].k = "timeout"
    /\ ex.ret.error = "timeout"

----------------------------------------------------------------------------
(* Properties of the work list                                             *)

GenDone == gen.gi > Len(GroupOrder(inventory))

GroupSize(cloud, region) == Len(GroupInstances(inventory, cloud, region))

SumOfPairCounts ==
    LET RECURSIVE Add(_)
        Add(gs) == IF gs = {} THEN 0
                   ELSE LET g == CHOOSE x \in gs : TRUE
                        IN PairCount(GroupSize(g[1], g[2])) + Add(gs \ {g})
    IN Add(Clouds \X Regions)

\* C8: the work list joins only two different instances of one (cloud, region),
\* holds every unordered combination of two instances of a group exactly once,
\* and its length is the sum over the groups of C(|group|, 2).
C8_OnePairPerCombination ==
    GenDone =>
        LET W == gen.work
        IN /\ \A k \in 1..Len(W) :
                 /\ W[k][1].key # W[k][2].key
                 /\ CloudOf(W[k][1]) = CloudOf(W[k][2])
                 /\ W[k][1].region = W[k][2].region
           /\ \A a, b \in 1..Len(inventory) :
                 (/\ a < b
                  /\ CloudOf(inventory[a]) = CloudOf(inventory[b])
                  /\ inventory[a].region = inventory[b].region)
                 => Cardinality({k \in 1..Len(W) :
                                    {W[k][1].key, W[k][2].key} = {a, b}}) = 1
           /\ Len(W) = SumOfPairCounts

\* C8 witness: a group of three and a group of one give three pairs
C8_ThreeAndOne ==
    /\ GenDone
    /\ \E g \in Clouds \X Regions : GroupSize(g[1], g[2]) = 3
    /\ \E g \in Clouds \X Regions : GroupSize(g[1], g[2]) = 1
    /\ Len(gen.work) = 3

----------------------------------------------------------------------------
(* Properties of generate_report                                           *)

Occurrences(seq, x) == Cardinality({k \in 1..Len(seq) : seq[k] = x})

\* C10: the ranking holds the tuples of the records of type 'result' of the
\* input, each as often as the input does, and nothing else, in
\* non-decreasing order of avg_ms.
C10_RankingIsSortedMeasurements ==
    report.state = "done" =>
        LET L == report.all_latencies
            rs == report.in.results
            M == {k \in 1..Len(rs) : rs[k].type = "result"}
        IN /\ Len(L) = Cardinality(M)
           /\ \A k \in M :
                 Occurrences(L, LatencyTuple(rs[k]))
                    = Cardinality({m \in M : LatencyTuple(rs[m]) = LatencyTuple(rs[k])})
           /\ \A i, j \in 1..Len(L) : i < j => FloatLeq(L[i][5], L[j][5])

\* C10 witness: a slower measurement, a record that is no measurement and a
\* faster measurement, in this order, have been ranked
C10_RankedOutOfOrderInput ==
    /\ report.state = "done"
    /\ Len(report.in.results) = 3
    /\ report.in.results[1].type = "result"
    /\ report.in.results[2].type # "result"
    /\ report.in.results[3].type = "result"
    /\ FloatLess(report.in.results[3].avg_ms, report.in.results[1].avg_ms)
    /\ Len(report.all_latencies) = 2

----------------------------------------------------------------------------
(* Properties of the ranking of a scheduled run                            *)

IndexOf(seq, x) == CHOOSE i \in 1..Len(seq) : seq[i] = x

\* (cloud, region, source_az, target_az) of the tuple a is not behind that of
\* the tuple b in lexicographic order
KeyLeq(a, b) ==
    LET ka == <<IndexOf(CloudOrder, a[1]), IndexOf(RegionOrder, a[2]), a[3], a[4]>>
        kb == <<IndexOf(CloudOrder, b[1]), IndexOf(RegionOrder, b[2]), b[3], b[4]>>
    IN \/ ka = kb
       \/ \E n \in 1..4 : ka[n] < kb[n] /\ \A m \in 1..(n - 1) : ka[m] = kb[m]

\* C11: in the ranking of a run, records of equal average latency stand in the
\* lexicographic order of (cloud, region, source_az, target_az), whatever the
\* order in which the workers completed them.
C11_TiesInKeyOrder ==
    report.state = "done" =>
        \A i, j \in 1..Len(report.all_latencies) :
            (i < j /\ report.all_latencies[i][5] = report.all_latencies[j][5])
               => KeyLeq(report.all_latencies[i], report.all_latencies[j])

----------------------------------------------------------------------------
(* Properties of the rollups of generate_report                            *)

\* the indexes of the measurements of the input in a cloud, in a (cloud, region)
InCloud(cloud) ==
    {k \in 1..Len(report.in.results) :
        /\ report.in.results[k].type = "result"
        /\ CloudOf(report.in.results[k]) = cloud}
InRegion(cloud, region) ==
    {k \in InCloud(cloud) : report.in.results[k].region = region}

\* a row's count, min, avg and max are those of the measurements ks of the input
RowIsRollupOf(row, ks) ==
    LET avgs == {report.in.results[k].avg_ms : k \in ks}
    IN /\ row.pairs = Cardinality(ks)
       /\ row.pairs >= 1
       /\ row.min \in avgs /\ \A a \in avgs : FloatLeq(row.min, a)
       /\ row.max \in avgs /\ \A a \in avgs : FloatLeq(a, row.max)
       /\ FloatLeq(row.min, row.avg)
       /\ FloatLeq(row.avg, row.max)

\* C12: the rollups have one row for every cloud and for every (cloud, region)
\* with a measurement and no other row; the row's count is the number of the
\* group's measurements, its min and max are their smallest and largest
\* avg_ms, and its avg lies between its min and its max.
C12_RollupsOverMeasurements ==
    report.state = "done" =>
        /\ \A c \in Clouds :
              Cardinality({k \in 1..Len(report.per_cloud) : report.per_cloud[k].cloud = c})
                 = IF InCloud(c) = {} THEN 0 ELSE 1
        /\ \A k \in 1..Len(report.per_cloud) :
              RowIsRollupOf(report.per_cloud[k], InCloud(report.per_cloud[k].cloud))
        /\ \A c \in Clouds, r \in Regions :
              Cardinality({k \in 1..Len(report.per_region) :
                              /\ report.per_region[k].cloud = c
                              /\ report.per_region[k].region = r})
                 = IF InRegion(c, r) = {} THEN 0 ELSE 1
        /\ \A k \in 1..Len(report.per_region) :
              RowIsRollupOf(report.per_region[k],
                            InRegion(report.per_region[k].cloud,
                                     report.per_region[k].region))

----------------------------------------------------------------------------
(* Properties of the top lists of generate_report                          *)

\* C13: the lowest list is the first min(TopN, total) entries of the ranking,
\* the highest list is its last min(TopN, total) entries, last first; when
\* the ranking has no more than TopN entries, the highest list is the lowest
\* list reversed and each holds every measurement of the input as often as
\* the input does.
C13_TopListsAreEndsOfRanking ==
    report.state = "done" =>
        LET L == report.all_latencies
            rs == report.in.results
            n == IF Len(L) < TopN THEN Len(L) ELSE TopN
        IN /\ Len(report.lowest) = n
           /\ Len(report.highest) = n
           /\ \A i \in 1..n : /\ report.lowest[i] = L[i]
                              /\ report.highest[i] = L[Len(L) + 1 - i]
           /\ Len(L) <= TopN =>
                 /\ \A i \in 1..n : report.highest[i] = report.lowest[n + 1 - i]
                 /\ \A k \in 1..Len(rs) :
                       rs[k].type = "result" =>
                          LET same == {m \in 1..Len(rs) :
                                          /\ rs[m].type = "result"
                                          /\ LatencyTuple(rs[m]) = LatencyTuple(rs[k])}
                          IN /\ Occurrences(report.lowest, LatencyTuple(rs[k]))
                                   = Cardinality(same)
                             /\ Occurrences(report.highest, LatencyTuple(rs[k]))
                                   = Cardinality(same)

\* C13 witness: a ranking longer than the top lists, whose fastest entry is not
\* in the highest list and whose slowest entry is not in the lowest list
C13_RankingLongerThanTopLists ==
    /\ report.state = "done"
    /\ Len(report.all_latencies) = TopN + 1
    /\ Len(report.lowest) = TopN
    /\ Occurrences(report.highest, report.all_latencies[1]) = 0
    /\ Occurrences(report.lowest, report.all_latencies[TopN + 1]) = 0
    /\ report.lowest # Reverse(report.highest)

----------------------------------------------------------------------------
(* Properties of the error records of run_measurement                      *)

ReturnedError == ex.pc = "returned" /\ ex.ret.type = "error"
LastStep == ex.steps[Len(ex.steps)]
\* every probe call of the execution returned
AllStepsReturned == \A n \in 1..Len(ex.steps) : ex.steps[n].k = "done"
\* the server was started, the five clients ran and the server was killed
RanToTheEnd == AllStepsReturned /\ LastStep.step = "kill"

\* C14 (as claimed): the error of an error record is timeout, parse_error or
\* transport_error; an execution whose probe calls all returned without a
\* valid sample has error parse_error and a text of at most 500 characters.
C14_CauseIsOneOfThree ==
    ReturnedError =>
        /\ ex.ret.error \in {"timeout", "parse_error", "transport_error"}
        /\ (RanToTheEnd /\ ex.latencies = << >>) =>
              /\ ex.ret.error = "parse_error"
              /\ Len(ex.ret.output) <= 500

\* C14 (amended): the error of an error record is 'timeout' when a probe call
\* timed out, the message of the exception when a probe call or float() raised
\* another exception, and 'no_valid_measurements' when every probe call
\* returned and no sample was valid; only the last carries a text, the fixed
\* 'qperf returned no valid latency values', which is under 500 characters.
C14_CauseIsTimeoutMessageOrNoValid ==
    ReturnedError =>
        /\ LastStep.k = "timeout" <=> ex.ret.error = "timeout"
        /\ LastStep.k = "exc" <=> ex.ret.error = SshMessage
        /\ (LastStep.k = "done" /\ LastStep.step = "client")
              <=> ex.ret.error = FloatMessage
        /\ (RanToTheEnd /\ ex.latencies = << >>)
              <=> ex.ret.error = "no_valid_measurements"
        /\ ex.ret.error \in {"timeout", SshMessage, FloatMessage, "no_valid_measurements"}
        /\ IF ex.ret.error = "no_valid_measurements"
           THEN ex.ret.output = NoValidOutput /\ Len(ex.ret.output) <= 500
           ELSE ex.ret.output = Missing

\* C14 witness: the five clients reported an error or nothing to parse, the
\* server was killed and the execution returned its error record
C14_NoValidSampleReturned ==
    /\ ReturnedError
    /\ RanToTheEnd
    /\ Len(ex.steps) = Iterations + 2
    /\ ex.ret.error = "no_valid_measurements"

----------------------------------------------------------------------------
(* Properties of the written result set                                    *)

\* every pair main could hand to run_region_measurements, over all groups
RECURSIVE PairsOfGroups(_)
PairsOfGroups(groups) ==
    IF groups = << >> THEN << >>
    ELSE GeneratePairs(inventory, Head(groups)[1], Head(groups)[2])
         \o PairsOfGroups(Tail(groups))
AllPairs == PairsOfGroups(GroupOrder(inventory))

ZoneIds == {inventory[i].az_id : i \in 1..Len(inventory)}

\* C15: the written result sequence accounts for every pair of every group of
\* the inventory, also of the groups whose measurements were not run: for
\* every cloud and every two zone ids it holds as many records as the groups
\* of the cloud have pairs with these zone ids.
C15_EveryPairOfInventoryAccounted ==
    Written =>
        \A c \in Clouds : \A a, b \in ZoneIds :
            Cardinality({k \in 1..Len(output_data.results) :
                            /\ output_data.results[k].cloud = c
                            /\ output_data.results[k].source_az = a
                            /\ output_data.results[k].target_az = b})
               = Cardinality({k \in 1..Len(AllPairs) :
                                 /\ CloudOf(AllPairs[k][1]) = c
                                 /\ AllPairs[k][1].az_id = a
                                 /\ AllPairs[k][2].az_id = b})

----------------------------------------------------------------------------
(* Properties of the scheduling                                            *)

\* the record of the work item has been appended to the results of its group
Recorded(j) ==
    /\ j <= Len(futures)
    /\ futures[j].yielded
    /\ futures[j].exec.pc = "returned"

\* the pair execution of the first work item is in flight
SlowInFlight == futures # << >> /\ futures[1].state = "running"

\* the first work item is in flight and the work item j of its group waits
WaitsBehindSlow(j) ==
    /\ j <= Len(futures)
    /\ SlowInFlight
    /\ futures[j].group = futures[1].group
    /\ futures[j].state = "pending"

\* C16: with two or more workers, a work item that waits while the slow pair
\* execution is in flight is started and yields its record, whether the slow
\* execution ever ends or not.
C16_SlowPairBlocksNoOther ==
    \A j \in WorkItems \ {1} : WaitsBehindSlow(j) ~> Recorded(j)

----------------------------------------------------------------------------
(* The orientation of the generated pairs                                  *)

SameGroup(a, b) ==
    /\ CloudOf(inventory[a]) = CloudOf(inventory[b])
    /\ inventory[a].region = inventory[b].region

\* the work items that go from instance a to instance b
Directed(a, b) ==
    {k \in 1..Len(gen.work) : gen.work[k][1].key = a /\ gen.work[k][2].key = b}

SumOfDirectedCounts ==
    LET RECURSIVE Add(_)
        Add(gs) == IF gs = {} THEN 0
                   ELSE LET g == CHOOSE x \in gs : TRUE
                        IN GroupSize(g[1], g[2]) * (GroupSize(g[1], g[2]) - 1)
                           + Add(gs \ {g})
    IN Add(Clouds \X Regions)

\* C17 (as stated): for every two different instances a, b of one group the
\* work list holds a pair from a to b and a pair from b to a, and its length
\* is the sum over the groups of |group| * (|group| - 1).
C17_BothDirectionsEmitted ==
    GenDone =>
        /\ \A a, b \in 1..Len(inventory) :
              (a # b /\ SameGroup(a, b)) => Directed(a, b) # {}
        /\ Len(gen.work) = SumOfDirectedCounts

\* C17 (amended): pairs are generated in one mode only.  For every two
\* different instances of one group the work list holds exactly one pair,
\* from the instance that comes first in the inventory to the other one, and
\* none in the opposite direction; its length is half the sum over the
\* groups of |group| * (|group| - 1).
C17_OneDirectionFirstToLater ==
    GenDone =>
        /\ \A a, b \in 1..Len(inventory) :
              (a < b /\ SameGroup(a, b)) =>
                  /\ Cardinality(Directed(a, b)) = 1
                  /\ Directed(b, a) = {}
        /\ \A k \in 1..Len(gen.work) : gen.work[k][1].key < gen.work[k][2].key
        /\ 2 * Len(gen.work) = SumOfDirectedCounts

\* C17 witness: two groups of two instances give two pairs
C17_TwoGroupsOfTwo ==
    /\ GenDone
    /\ Cardinality({g \in Clouds \X Regions : GroupSize(g[1], g[2]) = 2}) = 2
    /\ Len(gen.work) = 2

----------------------------------------------------------------------------
(* The measurement record of one pair execution                            *)

ReturnedMeasurement == ex.pc = "returned" /\ ex.ret.type = "result"

\* the statistics of the returned record describe the collected samples
StatisticsOfSamples ==
    /\ ex.ret.sample_count = Len(ex.latencies)
    /\ ex.ret.sample_count \in 1..Iterations
    /\ ex.ret.min_ms = FloatMin(ex.latencies)
    /\ ex.ret.max_ms = FloatMax(ex.latencies)

MinAvgMaxInOrder ==
    /\ FloatLeq(ex.ret.min_ms, ex.ret.avg_ms)
    /\ FloatLeq(ex.ret.avg_ms, ex.ret.max_ms)

\* C18: an execution returns a measurement record exactly if every probe call
\* returned and some client iteration gave a valid sample; the record's
\* sample_count is the number of samples, between 1 and the number of
\* iterations, min_ms and max_ms are the smallest and the largest sample, and
\* min_ms <= avg_ms <= max_ms.
C18_MeasurementOfValidSamples ==
    ex.pc = "returned" =>
        /\ ex.ret.type = "result" <=> (AllStepsReturned /\ ex.latencies # << >>)
        /\ ex.ret.type = "result" => (StatisticsOfSamples /\ MinAvgMaxInOrder)

----------------------------------------------------------------------------
(* Who writes the result sequences                                         *)

\* a step of a worker thread: a work item is taken up or its execution ends
WorkerStep ==
    \E i \in 1..Len(futures) :
        i <= Len(futures') /\ futures'[i].state # futures[i].state

\* the collecting loop takes the record of the finished future i
Appends(i) ==
    /\ pc = "collect"
    /\ futures[i].state = "finished"
    /\ futures[i].exec.pc = "returned"
    /\ ~futures[i].yielded
    /\ futures'[i].yielded
    /\ results' = Append(results, futures[i].exec.ret)

\* C19: a step of a worker thread leaves results and all_results as they are;
\* results changes only where the main thread empties it for a new group or
\* its collecting loop appends the record of one finished future that it has
\* not taken before, all_results only where the main thread extends it by a
\* group's results; a future taken once is never taken again, so the records
\* already in either sequence stay in their places unchanged.
C19_OnlyCollectorAppends ==
    [][ /\ WorkerStep => (results' = results /\ all_results' = all_results)
        /\ results' # results =>
              \/ pc = "region" /\ results' = << >>
              \/ \E i \in 1..Len(futures) : Appends(i)
        /\ all_results' # all_results =>
              (pc = "collect" /\ all_results' = all_results \o results)
        /\ \A i \in 1..Len(futures) : futures[i].yielded => futures'[i].yielded
      ]_vars

\* C19 witness: a record was appended while a worker is running and another
\* finished execution waits to be collected
C19_AppendedWhileWorkersBusy ==
    /\ pc = "collect"
    /\ results # << >>
    /\ Running # {}
    /\ \E i \in GroupFutures(CurGroup) :
          futures[i].state = "finished" /\ ~futures[i].yielded

----------------------------------------------------------------------------
(* The submission order                                                    *)

\* the work of a run as the inventory and the keys fix it: for every group of
\* a cloud with a key, in the order of the groups, its pairs in their order
RECURSIVE WorkOfGroups(_)
WorkOfGroups(groups) ==
    IF groups = << >> THEN << >>
    ELSE LET g == Head(groups)
             ps == GeneratePairs(inventory, g[1], g[2])
         IN (IF HasKey(g[1])
             THEN [k \in 1..Len(ps) |-> [group |-> g, src |-> ps[k][1], dst |-> ps[k][2]]]
             ELSE << >>)
            \o WorkOfGroups(Tail(groups))
PlannedWork == WorkOfGroups(GroupOrder(inventory))

\* what has been submitted so far, in submission order
Submitted ==
    [i \in 1..Len(futures) |->
        [group |-> futures[i].group, src |-> futures[i].src, dst |-> futures[i].dst]]

\* C20: whatever the probe calls do and in whatever order the workers end,
\* the work items submitted so far are the first ones of the work the
\* inventory fixes: same groups in the same order, within a group the same
\* pairs in the same order with the same source and target; a run that
\* reaches the written result set has submitted all of it.
C20_SubmissionFixedByInventory ==
    /\ Len(Submitted) <= Len(PlannedWork)
    /\ Submitted = SubSeq(PlannedWork, 1, Len(Submitted))
    /\ Written => Submitted = PlannedWork

\* C20 witness: the run wrote its result set after the work of two groups,
\* of which the first ended with an error record and the second with a
\* measurement
C20_TwoGroupsDifferentOutcomes ==
    /\ Written
    /\ Len(futures) = 2
    /\ futures[2].group # futures[1].group
    /\ all_results[1].type = "error"
    /\ all_results[2].type = "result"

----------------------------------------------------------------------------
(* The input of generate_report                                            *)

\* C21: the call of generate_report leaves results_data as it was: the same
\* records in the same order with the same fields.
C21_ReportLeavesInputUnchanged ==
    [][(report.state = "none" /\ report'.state = "done") => report'.in = report.in]_vars

\* C21 witness: the report was built from an input whose first record is not
\* a measurement and whose measurements are not in the order of the ranking
C21_ViewsDifferFromInput ==
    /\ report.state = "done"
    /\ Len(report.in.results) = 3
    /\ report.in.results[1].type # "result"
    /\ report.in.results[2].type = "result"
    /\ report.in.results[3].type = "result"
    /\ FloatLess(report.in.results[3].avg_ms, report.in.results[2].avg_ms)
    /\ report.all_latencies[1] = LatencyTuple(report.in.results[3])

----------------------------------------------------------------------------
(* The worker threads of one run_region_measurements call, each executing  *)
(* its run_measurement one probe call at a time.                           *)

\* a group of three instances: the pairs (1,2), (1,3), (2,3)
PoolInventories ==
    {inv \in GenInventories :
        /\ Len(inv) = 3
        /\ \A i \in 1..Len(inv) : inv[i].cloud = "aws" /\ inv[i].region = "r1"}

\* orchestrate.py:253-256  the dict of futures once every pair is submitted
SubmittedPairs(pairs) ==
    [n \in 1..Len(pairs) |->
        [group |-> <<"aws", "r1">>, src |-> pairs[n][1], dst |-> pairs[n][2],
         state |-> "pending", exec |-> None, yielded |-> FALSE]]

PoolInit ==
    /\ inventory \in PoolInventories
    /\ args_ssh_key = TRUE
    /\ ssh_keys = {}
    /\ max_workers \in 1..MaxWorkers
    /\ pc = "collect"
    /\ ci = 1
    /\ ri = 1
    /\ futures = SubmittedPairs(GeneratePairs(inventory, "aws", "r1"))
    /\ results = << >>
    /\ all_results = << >>
    /\ output_data = None
    /\ ex = None
    /\ gen = None
    /\ report = NoReport

\* where the execution of work item i is: at the call, before its first step
PoolExec(i) ==
    IF futures[i].exec = None THEN ExecStart(futures[i].src, futures[i].dst)
    ELSE futures[i].exec

\* what the probe call of the next step can do
PoolOutcomes(st) ==
    IF st.pc = "client" THEN {Done(GoodOutput), Done(ErrorOutput), TimeoutExpired}
    ELSE IF st.pc \in {"server", "kill"} THEN StepOutcomes
    ELSE {Done(NoOutput)}

\* a worker thread makes the next step of its run_measurement; with the last
\* step the future is finished
PoolStep(i) ==
    /\ futures[i].state = "running"
    /\ \E o \in PoolOutcomes(PoolExec(i)) :
          LET st == ExecStep(PoolExec(i), o)
          IN futures' = [futures EXCEPT
                            ![i].exec = st,
                            ![i].state = IF Finished(st) THEN "finished" ELSE "running"]
    /\ UNCHANGED <<inventory, args_ssh_key, ssh_keys, max_workers, pc, ci, ri,
                   results, all_results, output_data, ex, gen, report>>

PoolNext ==
    \/ \E i \in 1..Len(futures) : Start(i)
    \/ \E i \in 1..Len(futures) : PoolStep(i)

PoolSpec == PoolInit /\ [][PoolNext]_vars

----------------------------------------------------------------------------
(* C22: the probe server of a node shared by concurrent pair executions    *)

\* orchestrate.py:152, 183  both the server start command and the cleanup
\* command run  pkill -9 qperf  on the target: work item i issues a kill to
\* its target in this step
IssuesKill(i) ==
    /\ futures[i].state = "running"
    /\ PoolExec(i).pc \in {"server", "kill"}
    /\ futures'[i] # futures[i]

\* work item j is between its server start and the end of its client iterations
Measuring(j) ==
    /\ futures[j].state = "running"
    /\ PoolExec(j).pc = "client"

\* C22: no pair execution issues a server kill (at its server start or at its
\* cleanup) to a node while another pair execution of the group, running
\* concurrently and targeting the same node, is between its own server start
\* and the end of its client iterations
C22_NoKillUnderMeasurement ==
    [][\A i, j \in 1..Len(futures) :
          (i # j /\ futures[i].dst = futures[j].dst /\ IssuesKill(i))
              => ~Measuring(j)]_vars

----------------------------------------------------------------------------
(* C23: the server-kill cleanup after a server start                       *)

HasStep(name) == \E n \in 1..Len(ex.steps) : ex.steps[n].step = name

ServerStarted ==
    \E n \in 1..Len(ex.steps) : ex.steps[n].step = "server" /\ ex.steps[n].k = "done"

\* C23: a pair execution that has returned its record and whose server-start
\* step ran (here: ran and returned, the case that leaves a server behind) has
\* also executed the server-kill step, whatever the steps in between ended with
C23_StartedServerIsKilled ==
    (ex # None /\ ex.pc = "returned" /\ ServerStarted) => HasStep("kill")

====
